---- MODULE Spec2Model ----
(***************************************************************************)
(* Transfer engine of the playlist-transfer extension: the background      *)
(* service worker (src/background.js) and the popup's start handler        *)
(* (src/unnamed/part_001).                                                  *)
(*                                                                         *)
(* JavaScript runs each handler to its next await without interruption,    *)
(* so an action is one handler, or one resumption of performTransfer,      *)
(* from the point where it got control to the next await on real I/O       *)
(* (chrome.storage or a platform API call).  A runtime message changes     *)
(* nothing until the background handles it, so sending and handling it     *)
(* are one step.                                                           *)
(*                                                                         *)
(* A track is its 1-based position.  A progress value p is stored as the   *)
(* integer p * ProgressUnit, so that 30 + (i / n) * 30 is exact.           *)
(* Date.now() timestamps, playlist names and console output are left out.  *)
(***************************************************************************)
EXTENDS Integers, Sequences, FiniteSets, TLC

\* ------------------------------------------------------------------ bounds
MaxTracks == 3
MaxJobs == 2
OverlapTracks == 1

\* the batch size the user set in the popup's settings (part_001:328)
BatchSize == 2

\* saveTransferHistory calls in a row, past the history limit
MaxAppends == 55
\* the largest maxRetries handed to retryOperation
MaxRetries == 4
\* RateLimiter: callers, waitForSlot calls, requests per second, clock ticks
MaxCallers == 2
MaxCalls == 3
MaxRate == 2
MaxTicks == 4
MaxClock == 3
MaxRows == 2
MaxNavigations == 2

\* --------------------------------------------------------------- constants
HistoryLimit == 50
\* background.js:636-639 the window of the RateLimiter, in ms
Window == 1000
\* background.js:622 the delay before the next attempt is 1000 * attempt ms
RetryDelay == 1000
\* background.js:648 new RateLimiter(10)
DefaultRate == 10

Platforms == {"spotify", "youtube", "amazon"}

Null == "null"
Undefined == "undefined"

\* a search result that is null, and the match field left unset (540-550)
NullTrack == 0
UndefinedTrack == 0 - 1

RECURSIVE Gcd(_, _)
Gcd(a, b) == IF b = 0 THEN a ELSE Gcd(b, a % b)

RECURSIVE LcmUpTo(_)
LcmUpTo(n) == IF n <= 1 THEN 1 ELSE (LcmUpTo(n - 1) * n) \div Gcd(LcmUpTo(n - 1), n)

ProgressUnit == LcmUpTo(MaxTracks + 1)

Percent(p) == p * ProgressUnit

TrackList(n) == [k \in 1..n |-> k]

\* currentTransfer: null, and a playlist variable not yet assigned
NullTransfer ==
    [sourcePlaylist |-> [tracks |-> <<>>], sourcePlatform |-> Null,
     targetPlatform |-> Null,
     options |-> [conflictResolution |-> Null, batchSize |-> 0]]

NoPlaylist == [id |-> Undefined]

\* sendResponse payloads of the transfer handlers (231, 239, 248)
NoResponse == [success |-> FALSE, message |-> Undefined]
StartedResponse == [success |-> TRUE, message |-> "Transfer started"]
ConflictResponse == [success |-> FALSE, message |-> "Transfer already in progress"]
CancelledResponse == [success |-> TRUE, message |-> "Transfer cancelled"]

VARIABLES
    transferState,    \* background.js: let transferState
    jobs,             \* the performTransfer invocations, in order of start
    transferHistory,  \* chrome.storage.local 'transferHistory'
    lastResponse,     \* the last sendResponse payload of the background
    cancelLog,        \* per job: the cancellation requested while it ran
    limits,           \* the scenario: how many jobs, which requests and playlists
    saver,            \* saveTransferHistory called on its own, call after call
    retry,            \* one retryOperation call
    limiter,          \* a RateLimiter, its callers and the clock
    auth,             \* chrome.storage.local 'authTokens', the clock, the replies
    content           \* a content script: the page shown and currentPlaylist

\* the token store and the content script, idle while the engine runs
surfaces == <<auth, content>>

\* the utilities of background.js:594-648, idle while the engine runs
components == <<saver, retry, limiter, surfaces>>

vars == <<transferState, jobs, transferHistory, lastResponse, cancelLog, limits, components>>

\* ------------------------------------------------------------ data shapes
\* background.js:220 transferData, as the popup builds it (part_001:323-332)
TransferData(source, target, n) ==
    [sourcePlaylist |-> [tracks |-> TrackList(n)],
     sourcePlatform |-> source,
     targetPlatform |-> target,
     options |-> [conflictResolution |-> "skip", batchSize |-> BatchSize]]

\* background.js:500-512 updateProgress, applied to a transferState value
updateProgress(ts, progress, message) ==
    [ts EXCEPT !.progress = progress, !.message = message]

\* the switches with a case for amazon
SupportedPlatformWithAmazon(platform) ==
    platform \in {"spotify", "apple", "youtube", "amazon"}

\* background.js:518-527, 564-573, 581-590: the platforms the switches know
SupportedPlatform(platform) == platform \in {"spotify", "apple", "youtube"}

\* found: true for every search that returned, whatever it returned
MatchResultAlwaysFound(track, outcome) ==
    IF outcome \notin {"found", "absent"}
    THEN [original |-> track, found |-> FALSE, match |-> UndefinedTrack,
          error |-> outcome]
    ELSE [original |-> track, found |-> TRUE,
          match |-> IF outcome = "found" THEN track ELSE NullTrack,
          error |-> Undefined]

\* background.js:539-543 and 546-550: the MatchResult pushed for one track
MatchResult(track, outcome) ==
    IF outcome \notin {"found", "absent"}
    THEN [original |-> track, found |-> FALSE, match |-> UndefinedTrack,
          error |-> outcome]
    ELSE [original |-> track, found |-> (outcome = "found"),
          match |-> IF outcome = "found" THEN track ELSE NullTrack,
          error |-> Undefined]

\* background.js:554 progress after the search of tracks[i] (0-based i)
SearchProgress(i, n) == Percent(30) + (i * 30 * ProgressUnit) \div n

\* the filter of 579 left out: every result is submitted
ValidTrackUnfiltered(t) == TRUE

\* background.js:579 tracks.filter(t => t.found && t.match)
ValidTrack(t) == t.found /\ t.match \notin {NullTrack, UndefinedTrack}

\* the valid tracks collected back to front
ValidTracksReversed(results) ==
    LET valid == SelectSeq(results, ValidTrack)
    IN [k \in 1..Len(valid) |-> valid[Len(valid) + 1 - k]]

ValidTracks(results) == SelectSeq(results, ValidTrack)

\* background.js:483 matchedTracks.filter(t => t.found).length
FoundTrack(t) == t.found

\* the two counts of 483-484 taken from each other's list
TransferRecordSwapped(job) ==
    [sourcePlaylist |-> job.transferData.sourcePlaylist,
     sourcePlatform |-> job.transferData.sourcePlatform,
     targetPlatform |-> job.transferData.targetPlatform,
     targetPlaylist |-> job.targetPlaylist,
     transferredTracks |-> Len(job.sourceTracks),
     totalTracks |-> Len(SelectSeq(job.results, FoundTrack))]

\* background.js:478-486 the record handed to saveTransferHistory
TransferRecord(job) ==
    [sourcePlaylist |-> job.transferData.sourcePlaylist,
     sourcePlatform |-> job.transferData.sourcePlatform,
     targetPlatform |-> job.transferData.targetPlatform,
     targetPlaylist |-> job.targetPlaylist,
     transferredTracks |-> Len(SelectSeq(job.results, FoundTrack)),
     totalTracks |-> Len(job.sourceTracks)]

\* the unshifted list is kept whole
UnshiftUncut(history, record) == <<record>> \o history

\* the record goes to the end of the list
UnshiftAtEnd(history, record) ==
    LET h == history \o <<record>>
    IN IF Len(h) > HistoryLimit THEN SubSeq(h, 1, HistoryLimit) ELSE h

\* background.js:598-603 history.unshift(record); splice(50)
Unshift(history, record) ==
    LET h == <<record>> \o history
    IN IF Len(h) > HistoryLimit THEN SubSeq(h, 1, HistoryLimit) ELSE h

\* spec.md 4.2: addTracks hands back one outcome per track and fails as a
\* whole only on an infrastructural error; the platform functions called at
\* 583-587 are not part of the sources.  The numbers of tracks a call that
\* returns may report as inserted: all of them, or all but one
Inserted(validTracks) ==
    {n \in {Len(validTracks) - 1, Len(validTracks)} : n >= 0}

\* background.js:454-460 performTransfer up to its first await; events
\* counts the updateProgress calls of the job, the first one at 459
StartedJob(data) ==
    [pc |-> "fetchAuth",
     transferData |-> data,
     sourceTracks |-> <<>>,
     i |-> 0,
     results |-> <<>>,
     targetPlaylist |-> NoPlaylist,
     validTracks |-> <<>>,
     inserted |-> 0,
     history |-> <<>>,
     events |-> 1,
     responseSent |-> FALSE]

\* performTransfer awaited before the response is sent
AcceptedJobAwaited(data) == StartedJob(data)

\* background.js:231-234 the response is sent, then performTransfer is called
\* and not awaited
AcceptedJob(data) == [StartedJob(data) EXCEPT !.responseSent = TRUE]

\* performTransfer has returned after a last updateProgress (488, 492): its
\* locals are gone
ReturnedJob(job, pc) ==
    [job EXCEPT !.pc = pc, !.transferData = NullTransfer, !.sourceTracks = <<>>,
                !.i = 0, !.results = <<>>, !.targetPlaylist = NoPlaylist,
                !.validTracks = <<>>, !.inserted = 0, !.history = <<>>,
                !.events = @ + 1]

ActivePcs == {"fetchAuth", "fetching", "searchAuth", "searching", "createAuth",
              "creating", "addAuth", "adding", "histGet", "histSet"}

\* spec.md 4.1: the phase a running job is in
Phase(pc) ==
    CASE pc \in {"fetchAuth", "fetching"} -> "FetchingSource"
      [] pc \in {"searchAuth", "searching"} -> "Matching"
      [] pc \in {"createAuth", "creating"} -> "CreatingPlaylist"
      [] pc \in {"addAuth", "adding"} -> "InsertingTracks"
      [] pc \in {"histGet", "histSet"} -> "Finalizing"
      [] OTHER -> "none"

NoCancel == [requested |-> FALSE, phase |-> "none", progress |-> 0]

\* One transfer at a time is explored with every request and every playlist
\* size up to MaxTracks; overlapping transfers with one request shape.
Requests ==
    {TransferData(source, target, n) :
        source \in Platforms, target \in Platforms, n \in 0..MaxTracks}

\* thrown: the messages of the errors searchTrack may throw
Sequential ==
    [jobs |-> 1, requests |-> Requests, fetched |-> 0..MaxTracks,
     thrown |-> {"network error"}]

Overlapping ==
    [jobs |-> MaxJobs,
     requests |-> {TransferData("spotify", "youtube", OverlapTracks)},
     fetched |-> {OverlapTracks},
     thrown |-> {"network error"}]

\* one transfer of a playlist one track longer, whose searches may also
\* fail for an invalid or expired credential
Matching ==
    [jobs |-> 1,
     requests |-> {TransferData("spotify", "youtube", MaxTracks + 1)},
     fetched |-> {MaxTracks + 1},
     thrown |-> {"network error", "invalid credential"}]

\* a transfer of a one-track playlist and the transfer started after it
Terminating ==
    [jobs |-> 2,
     requests |-> {TransferData("spotify", "youtube", 1)},
     fetched |-> {1},
     thrown |-> {"network error"}]

Engine ==
    /\ transferState = [isTransferring |-> FALSE, currentTransfer |-> NullTransfer,
                        progress |-> 0, message |-> Undefined, errors |-> <<>>]
    /\ jobs = <<>>
    /\ transferHistory = <<>>
    /\ lastResponse = NoResponse
    /\ cancelLog = <<>>

\* ------------------------------------------------------------- utilities
\* a saveTransferHistory caller before its first call
SaverIdle == [pc |-> "idle", appended |-> 0, history |-> <<>>]

\* what one operation() call hands back, named by the attempt that made it
NoResult == [attempt |-> 0]
NoError == [kind |-> Null, attempt |-> 0]
ErrorKinds == {"transient", "auth"}

RetryIdle ==
    [pc |-> "idle", maxRetries |-> 0, attempt |-> 0, calls |-> 0,
     result |-> NoResult, error |-> NoError, errors |-> <<>>, waits |-> <<>>]

Callers == 1..MaxCallers

\* background.js:629-632 constructor(requestsPerSecond), with the clock at 0
\* and no caller inside waitForSlot
RateLimiter(requestsPerSecond) ==
    [requestsPerSecond |-> requestsPerSecond,
     requests |-> <<>>,
     clock |-> 0,
     callers |-> [c \in Callers |-> [pc |-> "idle", now |-> 0, wakeAt |-> 0, calls |-> 0]],
     grants |-> <<>>]

\* background.js:322 expires_in: ... || 3600, and 334 expires_in * 1000
DefaultExpiresIn == 3600
MsPerSecond == 1000

\* the clock advances by half the default lifetime of a token
ClockStep == (DefaultExpiresIn * MsPerSecond) \div 2

\* a number that is undefined, and what arithmetic on it gives
UndefinedNumber == 0 - 1
NaN == 0 - 2

\* authTokens[platform] when nothing is stored
NoToken == [stored |-> FALSE, expires |-> 0]

\* background.js:49 authTokens: {}; no getAuthStatus or getAuthToken yet
AuthIdle ==
    [authTokens |-> [p \in Platforms |-> NoToken],
     now |-> ClockStep,
     status |-> [p \in Platforms |-> [authenticated |-> FALSE, expires |-> 0]],
     token |-> [platform |-> Null, token |-> NoToken]]

\* the DOM a content script reads: the playlist of the URL (Null on any
\* other page), whether the playlist header and the title element are
\* there, and for each track row whether it has a track-name element.
\* window.location.href is told apart by the playlist it names.
PlaylistIds == {"PL1", "PL2"}

TrackRows == UNION {[1..n -> BOOLEAN] : n \in 0..MaxRows}

Pages ==
    [list : PlaylistIds \cup {Null}, header : BOOLEAN, title : BOOLEAN,
     rows : TrackRows]

BlankPage == [list |-> Null, header |-> FALSE, title |-> FALSE, rows |-> <<>>]

\* youtube_content.js:23 let currentPlaylist = null
NullPlaylist ==
    [extracted |-> FALSE, id |-> Null, url |-> Null, trackCount |-> 0, tracks |-> <<>>]

NoReply == [asked |-> FALSE, playlist |-> NullPlaylist, page |-> BlankPage,
            checked |-> FALSE]

\* youtube_content.js:22-26 the script as loaded, no timer set
ContentIdle ==
    [page |-> BlankPage, currentPlaylist |-> NullPlaylist, extractTimer |-> FALSE,
     checked |-> FALSE, navigations |-> 0, reply |-> NoReply]

\* background.js:648 const rateLimiter = new RateLimiter(10)
Utilities ==
    /\ saver = SaverIdle
    /\ retry = RetryIdle
    /\ limiter = RateLimiter(DefaultRate)
    /\ auth = AuthIdle
    /\ content = ContentIdle

Init == Engine /\ Utilities /\ limits = Sequential

InitOverlap == Engine /\ Utilities /\ limits = Overlapping

InitMatching == Engine /\ Utilities /\ limits = Matching

InitLive == Engine /\ Utilities /\ limits = Terminating

\* ------------------------------------------------------------------ popup
\* part_001:292-300 handleStartTransfer of the popup sends a startTransfer
\* message only for two different platforms
PopupSends(data) == data.sourcePlatform # data.targetPlatform

\* ------------------------------------------------------------- background
\* background.js:220-241 handleStartTransfer, on a message the popup sent
HandleStartTransfer(data) ==
    /\ PopupSends(data)
    /\ IF transferState.isTransferring
       THEN \* throw at 223, caught at 236-239
            /\ transferState' = [transferState EXCEPT !.isTransferring = FALSE]
            /\ lastResponse' = ConflictResponse
            /\ UNCHANGED <<jobs, cancelLog>>
       ELSE /\ Len(jobs) < limits.jobs
            /\ LET accepted == [transferState EXCEPT !.isTransferring = TRUE,
                                                     !.currentTransfer = data,
                                                     !.progress = 0,
                                                     !.errors = <<>>]
               IN /\ lastResponse' = StartedResponse
                  /\ transferState' = updateProgress(accepted, Percent(10), "fetching")
                  /\ jobs' = Append(jobs, AcceptedJob(data))
                  /\ cancelLog' = Append(cancelLog, NoCancel)
    /\ UNCHANGED <<transferHistory, limits, components>>

\* background.js:244-249 handleCancelTransfer
HandleCancelTransfer ==
    /\ transferState' = [transferState EXCEPT !.isTransferring = FALSE,
                                              !.currentTransfer = NullTransfer,
                                              !.progress = 0]
    /\ lastResponse' = CancelledResponse
    /\ cancelLog' = [j \in DOMAIN cancelLog |->
                       IF /\ transferState.isTransferring
                          /\ jobs[j].pc \in ActivePcs
                          /\ ~cancelLog[j].requested
                       THEN [requested |-> TRUE, phase |-> Phase(jobs[j].pc),
                             progress |-> transferState.progress]
                       ELSE cancelLog[j]]
    /\ UNCHANGED <<jobs, transferHistory, limits, components>>

\* the catch without the finally of 494-496
FailStillRunning(j, reason) ==
    LET pushed == [transferState EXCEPT !.errors = Append(@, reason)]
    IN /\ transferState' = updateProgress(pushed, pushed.progress, "failed")
       /\ jobs' = [jobs EXCEPT ![j] = ReturnedJob(@, "failed")]

\* the catch without the push of 491
FailSilently(j, reason) ==
    LET failed == updateProgress(transferState, transferState.progress, "failed")
    IN /\ transferState' = [failed EXCEPT !.isTransferring = FALSE]
       /\ jobs' = [jobs EXCEPT ![j] = ReturnedJob(@, "failed")]

\* background.js:490-496 catch and finally of performTransfer
Fail(j, reason) ==
    LET pushed == [transferState EXCEPT !.errors = Append(@, reason)]
        failed == updateProgress(pushed, pushed.progress, "failed")
    IN /\ transferState' = [failed EXCEPT !.isTransferring = FALSE]
       /\ jobs' = [jobs EXCEPT ![j] = ReturnedJob(@, "failed")]

JobAt(j, pc) == j \in DOMAIN jobs /\ jobs[j].pc = pc

\* background.js:515-527 getPlaylistTracks after getAuthToken resolved
FetchTokenReady(j) ==
    /\ JobAt(j, "fetchAuth")
    /\ IF SupportedPlatform(jobs[j].transferData.sourcePlatform)
       THEN /\ jobs' = [jobs EXCEPT ![j].pc = "fetching"]
            /\ UNCHANGED transferState
       ELSE Fail(j, "not supported for track fetching")
    /\ UNCHANGED <<transferHistory, lastResponse, cancelLog, limits, components>>

\* background.js:460-464 the fetch returns or throws; then 531-538
FetchReturn(j) ==
    /\ JobAt(j, "fetching")
    /\ \/ \E n \in limits.fetched :
             /\ jobs' = [jobs EXCEPT ![j].sourceTracks = TrackList(n),
                                     ![j].pc = "searchAuth",
                                     ![j].events = @ + 1]
             /\ transferState' = updateProgress(transferState, Percent(30), "searching")
       \/ Fail(j, "fetch error")
    /\ UNCHANGED <<transferHistory, lastResponse, cancelLog, limits, components>>

\* background.js:466-471 after searchTracksOnPlatform returned
MatchingDone(j, ts, js) ==
    /\ transferState' = updateProgress(ts, Percent(60), "creating")
    /\ jobs' = [js EXCEPT ![j].pc = "createAuth", ![j].events = @ + 1]

\* background.js:532-538 searchTracksOnPlatform after getAuthToken resolved
SearchTokenReady(j) ==
    /\ JobAt(j, "searchAuth")
    /\ IF jobs[j].i < Len(jobs[j].sourceTracks)
       THEN /\ jobs' = [jobs EXCEPT ![j].pc = "searching"]
            /\ UNCHANGED transferState
       ELSE MatchingDone(j, transferState, jobs)
    /\ UNCHANGED <<transferHistory, lastResponse, cancelLog, limits, components>>

\* background.js:538-557 searchTrack returns or throws; progress; next track
SearchReturn(j) ==
    /\ JobAt(j, "searching")
    /\ \E outcome \in {"found", "absent"} \cup limits.thrown :
         LET job == jobs[j]
             n == Len(job.sourceTracks)
             track == job.sourceTracks[job.i + 1]
             ts == updateProgress(transferState, SearchProgress(job.i, n),
                                  "searching track")
             js == [jobs EXCEPT ![j].results = Append(@, MatchResult(track, outcome)),
                                ![j].i = @ + 1,
                                ![j].events = @ + 1]
         IN IF job.i + 1 < n
            THEN /\ transferState' = ts
                 /\ jobs' = js
            ELSE MatchingDone(j, ts, js)
    /\ UNCHANGED <<transferHistory, lastResponse, cancelLog, limits, components>>

\* background.js:561-573 createPlaylist after getAuthToken resolved
CreateTokenReady(j) ==
    /\ JobAt(j, "createAuth")
    /\ IF SupportedPlatform(jobs[j].transferData.targetPlatform)
       THEN /\ jobs' = [jobs EXCEPT ![j].pc = "creating"]
            /\ UNCHANGED transferState
       ELSE Fail(j, "not supported for playlist creation")
    /\ UNCHANGED <<transferHistory, lastResponse, cancelLog, limits, components>>

\* background.js:468-475 createPlaylist returns or throws
CreateReturn(j) ==
    /\ JobAt(j, "creating")
    /\ \/ /\ jobs' = [jobs EXCEPT ![j].targetPlaylist = [id |-> "target"],
                                  ![j].pc = "addAuth",
                                  ![j].events = @ + 1]
          /\ transferState' = updateProgress(transferState, Percent(80), "adding")
       \/ Fail(j, "create error")
    /\ UNCHANGED <<transferHistory, lastResponse, cancelLog, limits, components>>

\* background.js:577-590 addTracksToPlaylist after getAuthToken resolved
AddTokenReady(j) ==
    /\ JobAt(j, "addAuth")
    /\ IF SupportedPlatform(jobs[j].transferData.targetPlatform)
       THEN /\ jobs' = [jobs EXCEPT ![j].validTracks = ValidTracks(jobs[j].results),
                                    ![j].pc = "adding"]
            /\ UNCHANGED transferState
       ELSE Fail(j, "not supported for adding tracks")
    /\ UNCHANGED <<transferHistory, lastResponse, cancelLog, limits, components>>

\* background.js:475-486 addTracks returns or throws; saveTransferHistory starts
AddReturn(j) ==
    /\ JobAt(j, "adding")
    /\ \/ /\ \E inserted \in Inserted(jobs[j].validTracks) :
                jobs' = [jobs EXCEPT ![j].inserted = inserted, ![j].pc = "histGet"]
          /\ UNCHANGED transferState
       \/ Fail(j, "add error")
    /\ UNCHANGED <<transferHistory, lastResponse, cancelLog, limits, components>>

\* background.js:595-605 saveTransferHistory: storage read, unshift, splice
HistoryRead(j) ==
    /\ JobAt(j, "histGet")
    /\ jobs' = [jobs EXCEPT ![j].history = Unshift(transferHistory, TransferRecord(jobs[j])),
                            ![j].pc = "histSet"]
    /\ UNCHANGED <<transferState, transferHistory, lastResponse, cancelLog, limits, components>>

\* background.js:605, 488, 494-496 storage written; completed; finally
HistoryWritten(j) ==
    /\ JobAt(j, "histSet")
    /\ transferHistory' = jobs[j].history
    /\ transferState' = [updateProgress(transferState, Percent(100), "completed")
                            EXCEPT !.isTransferring = FALSE]
    /\ jobs' = [jobs EXCEPT ![j] = ReturnedJob(@, "done")]
    /\ UNCHANGED <<lastResponse, cancelLog, limits, components>>

JobIds == 1..MaxJobs

Next ==
    \/ \E data \in limits.requests : HandleStartTransfer(data)
    \/ HandleCancelTransfer
    \/ \E j \in JobIds : FetchTokenReady(j)
    \/ \E j \in JobIds : FetchReturn(j)
    \/ \E j \in JobIds : SearchTokenReady(j)
    \/ \E j \in JobIds : SearchReturn(j)
    \/ \E j \in JobIds : CreateTokenReady(j)
    \/ \E j \in JobIds : CreateReturn(j)
    \/ \E j \in JobIds : AddTokenReady(j)
    \/ \E j \in JobIds : AddReturn(j)
    \/ \E j \in JobIds : HistoryRead(j)
    \/ \E j \in JobIds : HistoryWritten(j)

Spec == Init /\ [][Next]_vars

SpecOverlap == InitOverlap /\ [][Next]_vars

SpecMatching == InitMatching /\ [][Next]_vars

\* a resumption of performTransfer: the continuation after an await
JobStep(j) ==
    \/ FetchTokenReady(j)
    \/ FetchReturn(j)
    \/ SearchTokenReady(j)
    \/ SearchReturn(j)
    \/ CreateTokenReady(j)
    \/ CreateReturn(j)
    \/ AddTokenReady(j)
    \/ AddReturn(j)
    \/ HistoryRead(j)
    \/ HistoryWritten(j)

\* Every adapter and storage call returns or throws, and the event loop
\* runs the continuation of a settled promise: some pending resumption is
\* eventually run.  The messages of the popup are under no obligation.
SpecLive ==
    /\ InitLive
    /\ [][Next]_vars
    /\ WF_vars(\E j \in JobIds : JobStep(j))

\* ------------------------------------------------------ saveTransferHistory
\* calls of saveTransferHistory one after the other; the record of the k-th
\* call is named by k, its place in time (timestamp, 484)
InitHistory == Engine /\ Utilities /\ limits = Sequential

\* background.js:595-603 the stored list is read, the record goes to the front
SaveRead ==
    /\ saver.pc = "idle"
    /\ saver.appended < MaxAppends
    /\ saver' = [pc |-> "histSet",
                 appended |-> saver.appended + 1,
                 history |-> Unshift(transferHistory, saver.appended + 1)]
    /\ UNCHANGED <<transferState, jobs, transferHistory, lastResponse, cancelLog,
                   limits, retry, limiter, surfaces>>

\* background.js:605 the list is written back and the call returns
SaveWrite ==
    /\ saver.pc = "histSet"
    /\ transferHistory' = saver.history
    /\ saver' = [saver EXCEPT !.pc = "idle", !.history = <<>>]
    /\ UNCHANGED <<transferState, jobs, lastResponse, cancelLog, limits, retry, limiter, surfaces>>

NextHistory == SaveRead \/ SaveWrite

SpecHistory == InitHistory /\ [][NextHistory]_vars

\* background.js:41-57 the onInstalled listener (install, update, browser
\* update) writes an empty transferHistory and an empty authTokens
OnInstalled ==
    /\ transferHistory' = <<>>
    /\ auth' = [auth EXCEPT !.authTokens = [p \in Platforms |-> NoToken]]
    /\ UNCHANGED <<transferState, jobs, lastResponse, cancelLog, limits,
                   saver, retry, limiter, content>>

NextLifecycle == SaveRead \/ SaveWrite \/ OnInstalled

SpecLifecycle == InitHistory /\ [][NextLifecycle]_vars

\* ----------------------------------------------------------- retryOperation
InitRetry == Engine /\ Utilities /\ limits = Sequential

\* background.js:617 attempt === maxRetries
LastAttempt(attempt, maxRetries) == attempt = maxRetries

\* the error of the first attempt
SurfacedFirst(errors) == errors[1]

\* background.js:616-618 throw error: the error just caught
Surfaced(errors) == errors[Len(errors)]

\* background.js:612-615 the call enters the loop and invokes operation();
\* when the loop test fails at once the function returns undefined
RetryOperation(maxRetries) ==
    /\ retry.pc = "idle"
    /\ retry' = IF 1 <= maxRetries
                THEN [retry EXCEPT !.pc = "calling", !.maxRetries = maxRetries,
                                   !.attempt = 1, !.calls = 1]
                ELSE [retry EXCEPT !.pc = "returned", !.maxRetries = maxRetries,
                                   !.attempt = 1]
    /\ UNCHANGED <<transferState, jobs, transferHistory, lastResponse, cancelLog,
                   limits, saver, limiter, surfaces>>

\* background.js:615 return await operation(), operation() fulfilled
OperationReturns ==
    /\ retry.pc = "calling"
    /\ retry' = [retry EXCEPT !.pc = "returned", !.result = [attempt |-> retry.attempt]]
    /\ UNCHANGED <<transferState, jobs, transferHistory, lastResponse, cancelLog,
                   limits, saver, limiter, surfaces>>

\* the same delay before every attempt
BackoffConstant(attempt) == RetryDelay

\* background.js:622 setTimeout(resolve, 1000 * attempt)
Backoff(attempt) == RetryDelay * attempt

\* background.js:616-622 operation() rejected: rethrow on the last attempt,
\* else wait 1000 * attempt ms
OperationThrows(kind) ==
    /\ retry.pc = "calling"
    /\ LET errors == Append(retry.errors, [kind |-> kind, attempt |-> retry.attempt])
       IN retry' = IF LastAttempt(retry.attempt, retry.maxRetries)
                   THEN [retry EXCEPT !.pc = "thrown", !.errors = errors,
                                      !.error = Surfaced(errors)]
                   ELSE [retry EXCEPT !.pc = "sleeping", !.errors = errors,
                                      !.waits = Append(@, Backoff(retry.attempt))]
    /\ UNCHANGED <<transferState, jobs, transferHistory, lastResponse, cancelLog,
                   limits, saver, limiter, surfaces>>

\* background.js:622, 613-615 the timer fires, attempt++, the loop test, and
\* operation() is invoked again
RetryTimerFires ==
    /\ retry.pc = "sleeping"
    /\ retry' = IF retry.attempt + 1 <= retry.maxRetries
                THEN [retry EXCEPT !.pc = "calling", !.attempt = @ + 1, !.calls = @ + 1]
                ELSE [retry EXCEPT !.pc = "returned", !.attempt = @ + 1]
    /\ UNCHANGED <<transferState, jobs, transferHistory, lastResponse, cancelLog,
                   limits, saver, limiter, surfaces>>

NextRetry ==
    \/ \E maxRetries \in 0..MaxRetries : RetryOperation(maxRetries)
    \/ OperationReturns
    \/ \E kind \in ErrorKinds : OperationThrows(kind)
    \/ RetryTimerFires

SpecRetry == InitRetry /\ [][NextRetry]_vars

\* -------------------------------------------------------------- RateLimiter
\* the clock (Date.now()) is in ms and moves in quarters of the window
TimeUnit == Window \div 4

MaxTime == MaxTicks * TimeUnit

InitLimiter ==
    /\ Engine
    /\ limits = Sequential
    /\ saver = SaverIdle
    /\ retry = RetryIdle
    /\ \E requestsPerSecond \in 1..MaxRate : limiter = RateLimiter(requestsPerSecond)
    /\ auth = AuthIdle
    /\ content = ContentIdle

\* a request stays in the window up to and on its 1000th ms
InWindowInclusive(now, time) == now - time <= Window

\* background.js:636 now - time < 1000
InWindow(now, time) == now - time < Window

\* background.js:636 this.requests.filter(...)
Recent(requests, now) == SelectSeq(requests, LAMBDA time : InWindow(now, time))

\* background.js:639 Math.min(...this.requests)
Oldest(requests) ==
    CHOOSE t \in {requests[k] : k \in DOMAIN requests} :
        \A k \in DOMAIN requests : t <= requests[k]

\* background.js:640 1000 - (now - oldestRequest)
WaitTime(now, oldest) == Window - (now - oldest)

Waiting == {c \in Callers : limiter.callers[c].pc = "waiting"}

\* the waitForSlot calls made so far by callers 1..c
RECURSIVE CallsUpTo(_)
CallsUpTo(c) == IF c = 0 THEN 0 ELSE limiter.callers[c].calls + CallsUpTo(c - 1)

\* time passes; a pending timer fires when its time has come, not later
Tick ==
    /\ limiter.clock + TimeUnit <= MaxTime
    /\ \A c \in Waiting : limiter.clock + TimeUnit <= limiter.callers[c].wakeAt
    /\ limiter' = [limiter EXCEPT !.clock = @ + TimeUnit]
    /\ UNCHANGED <<transferState, jobs, transferHistory, lastResponse, cancelLog,
                   limits, saver, retry, surfaces>>

\* background.js:634-645 waitForSlot up to its await: the window is pruned;
\* with room the request is pushed and the call returns, else a timer is set
WaitForSlot(c) ==
    /\ limiter.callers[c].pc = "idle"
    /\ CallsUpTo(MaxCallers) < MaxCalls
    /\ LET now == limiter.clock
           recent == Recent(limiter.requests, now)
           calls == limiter.callers[c].calls + 1
       IN limiter' =
            IF Len(recent) >= limiter.requestsPerSecond
            THEN [limiter EXCEPT
                    !.requests = recent,
                    !.callers[c] = [pc |-> "waiting", now |-> now,
                                    wakeAt |-> now + WaitTime(now, Oldest(recent)),
                                    calls |-> calls]]
            ELSE [limiter EXCEPT
                    !.requests = Append(recent, now),
                    !.callers[c] = [pc |-> "idle", now |-> 0, wakeAt |-> 0,
                                    calls |-> calls],
                    !.grants = Append(@, [asked |-> now, at |-> now])]
    /\ UNCHANGED <<transferState, jobs, transferHistory, lastResponse, cancelLog,
                   limits, saver, retry, surfaces>>

\* background.js:641-644 the timer of caller c fires: now, read before the
\* wait, is pushed and the call returns
SlotTimerFires(c) ==
    /\ c \in Waiting
    /\ \A d \in Waiting : limiter.callers[c].wakeAt <= limiter.callers[d].wakeAt
    /\ limiter' = [limiter EXCEPT
                     !.clock = limiter.callers[c].wakeAt,
                     !.requests = Append(@, limiter.callers[c].now),
                     !.callers[c] = [pc |-> "idle", now |-> 0, wakeAt |-> 0,
                                     calls |-> limiter.callers[c].calls],
                     !.grants = Append(@, [asked |-> limiter.callers[c].now,
                                           at |-> limiter.callers[c].wakeAt])]
    /\ UNCHANGED <<transferState, jobs, transferHistory, lastResponse, cancelLog,
                   limits, saver, retry, surfaces>>

NextLimiter ==
    \/ Tick
    \/ \E c \in Callers : WaitForSlot(c)
    \/ \E c \in Callers : SlotTimerFires(c)

SpecLimiter == InitLimiter /\ [][NextLimiter]_vars

\* setTimeout callbacks run: a timer that is due fires
SpecLimiterLive ==
    /\ InitLimiter
    /\ [][NextLimiter]_vars
    /\ \A c \in Callers : WF_vars(SlotTimerFires(c))

TypeOK ==
    /\ transferState.isTransferring \in BOOLEAN
    /\ transferState.progress \in 0..Percent(100)
    /\ Len(jobs) <= limits.jobs
    /\ Len(cancelLog) = Len(jobs)
    /\ Len(transferHistory) <= HistoryLimit

\* ------------------------------------------------------------ auth tokens
InitAuth == Engine /\ Utilities /\ limits = Sequential

\* JavaScript truthiness of a number: 0 and NaN are falsy
Truthy(number) == number # 0 /\ number # NaN

\* background.js:306-325 extractTokenFromUrl: an authorization code for
\* spotify and youtube, carrying no expires_in; else a bearer token
ExtractTokenFromUrl(platform, expires_in) ==
    IF platform \in {"spotify", "youtube"}
    THEN [type |-> "authorization_code", expires_in |-> UndefinedNumber]
    ELSE [type |-> "bearer", expires_in |-> expires_in]

\* background.js:332-336 authTokens[platform]: expires is Date.now() + (tokenData.expires_in * 1000)
StoredToken(tokenData, now) ==
    [stored |-> TRUE,
     expires |-> IF tokenData.expires_in = UndefinedNumber
                 THEN NaN
                 ELSE now + tokenData.expires_in * MsPerSecond]

\* background.js:134-140 the status of every platform
AuthStatus(authTokens) ==
    [p \in Platforms |->
        [authenticated |-> authTokens[p].stored,
         expires |-> IF authTokens[p].stored /\ Truthy(authTokens[p].expires)
                     THEN authTokens[p].expires ELSE 0]]

\* background.js:342-356 getAuthToken
GetAuthToken(authTokens, platform, now) ==
    LET token == authTokens[platform]
    IN IF ~token.stored THEN NoToken
       ELSE IF Truthy(token.expires) /\ now > token.expires THEN NoToken
       ELSE token

\* background.js:185-187 the redirect of the auth flow: token extracted, saved
SaveAuthToken(platform) ==
    /\ \E expires_in \in {DefaultExpiresIn \div 2, DefaultExpiresIn} :
          auth' = [auth EXCEPT !.authTokens[platform] =
                      StoredToken(ExtractTokenFromUrl(platform, expires_in), auth.now)]
    /\ UNCHANGED <<transferState, jobs, transferHistory, lastResponse, cancelLog,
                   limits, saver, retry, limiter, content>>

\* background.js:129-147 handleGetAuthStatus
HandleGetAuthStatus ==
    /\ auth' = [auth EXCEPT !.status = AuthStatus(auth.authTokens)]
    /\ UNCHANGED <<transferState, jobs, transferHistory, lastResponse, cancelLog,
                   limits, saver, retry, limiter, content>>

\* background.js:203-207 handleGetPlaylists asks getAuthToken
AskAuthToken(platform) ==
    /\ auth' = [auth EXCEPT !.token =
                   [platform |-> platform,
                    token |-> GetAuthToken(auth.authTokens, platform, auth.now)]]
    /\ UNCHANGED <<transferState, jobs, transferHistory, lastResponse, cancelLog,
                   limits, saver, retry, limiter, content>>

\* Date.now() moves on
ClockAdvances ==
    /\ auth.now < MaxClock * ClockStep
    /\ auth' = [auth EXCEPT !.now = @ + ClockStep]
    /\ UNCHANGED <<transferState, jobs, transferHistory, lastResponse, cancelLog,
                   limits, saver, retry, limiter, content>>

NextAuth ==
    \/ \E platform \in Platforms : SaveAuthToken(platform)
    \/ HandleGetAuthStatus
    \/ \E platform \in Platforms : AskAuthToken(platform)
    \/ ClockAdvances

SpecAuth == InitAuth /\ [][NextAuth]_vars

\* --------------------------------------------------------- content script
InitContent == Engine /\ Utilities /\ limits = Sequential

\* youtube_content.js:112-114 playlistPage && isPlaylistPage()
OnPlaylistPage(page) == page.header /\ page.list # Null

\* youtube_content.js:170-184 extractPlaylistIdFromUrl
ExtractPlaylistIdFromUrl(page) == IF page.list # Null THEN page.list ELSE "unknown"

\* youtube_content.js:187-243 extractTracks: a track for each row that has a
\* track-name element, position: index + 1
ExtractTracks(rows) ==
    LET named == SelectSeq([index \in 1..Len(rows) |-> index], LAMBDA index : rows[index])
    IN [k \in 1..Len(named) |-> [position |-> named[k]]]

\* youtube_content.js:134-167 extractPlaylistData: return at 139-142 when the
\* title element is missing; trackCount is the number of rows (149-150)
ExtractPlaylistData(page, currentPlaylist) ==
    IF ~page.title THEN currentPlaylist
    ELSE [extracted |-> TRUE,
          id |-> ExtractPlaylistIdFromUrl(page),
          url |-> page.list,
          trackCount |-> Len(page.rows),
          tracks |-> ExtractTracks(page.rows)]

\* the page navigates or its content changes
Navigate ==
    /\ content.navigations < MaxNavigations
    /\ \E page \in Pages :
          /\ page # content.page
          /\ content' = [content EXCEPT !.page = page, !.checked = FALSE,
                                        !.navigations = @ + 1]
    /\ UNCHANGED <<transferState, jobs, transferHistory, lastResponse, cancelLog,
                   limits, saver, retry, limiter, auth>>

\* youtube_content.js:111-123 checkForPlaylist, run by a timer of the observers
CheckForPlaylist ==
    /\ IF OnPlaylistPage(content.page)
       THEN content' = [content EXCEPT !.extractTimer = TRUE]
       ELSE content' = [content EXCEPT !.checked = TRUE]
    /\ UNCHANGED <<transferState, jobs, transferHistory, lastResponse, cancelLog,
                   limits, saver, retry, limiter, auth>>

\* youtube_content.js:119 setTimeout(extractPlaylistData, 800) fires
ExtractTimerFires ==
    /\ content.extractTimer
    /\ content' = [content EXCEPT
                      !.currentPlaylist = ExtractPlaylistData(content.page, @),
                      !.extractTimer = FALSE,
                      !.checked = TRUE]
    /\ UNCHANGED <<transferState, jobs, transferHistory, lastResponse, cancelLog,
                   limits, saver, retry, limiter, auth>>

\* youtube_content.js:473-476 case 'refreshPlaylist'
RefreshPlaylist ==
    /\ content' = [content EXCEPT
                      !.currentPlaylist = ExtractPlaylistData(content.page, @)]
    /\ UNCHANGED <<transferState, jobs, transferHistory, lastResponse, cancelLog,
                   limits, saver, retry, limiter, auth>>

\* youtube_content.js:466-471 case 'getPlaylistData'
GetPlaylistData ==
    /\ content' = [content EXCEPT
                      !.reply = [asked |-> TRUE,
                                 playlist |-> content.currentPlaylist,
                                 page |-> content.page,
                                 checked |-> content.checked]]
    /\ UNCHANGED <<transferState, jobs, transferHistory, lastResponse, cancelLog,
                   limits, saver, retry, limiter, auth>>

NextContent ==
    \/ Navigate
    \/ CheckForPlaylist
    \/ ExtractTimerFires
    \/ RefreshPlaylist
    \/ GetPlaylistData

SpecContent == InitContent /\ [][NextContent]_vars

\* ================================================================== claims
Running(j) == jobs[j].pc \in ActivePcs

Returned(j) == jobs[j].pc \in {"done", "failed"}

\* the step starts an adapter call of job j: searchTrack, createPlaylist, addTracks
CallStarted(j) ==
    /\ jobs'[j].pc \in {"searching", "creating", "adding"}
    /\ jobs'[j].pc # jobs[j].pc \/ jobs'[j].i # jobs[j].i

\* the step is a startTransfer that was rejected / a cancelTransfer
RejectedStartStep ==
    transferState.isTransferring /\ lastResponse' = ConflictResponse /\ jobs' = jobs

AcceptedStartStep == Len(jobs') > Len(jobs)

CancelStep ==
    /\ lastResponse' = CancelledResponse
    /\ jobs' = jobs
    /\ ~transferState'.isTransferring
    /\ transferState'.currentTransfer = NullTransfer
    /\ transferState'.progress = 0

CancelledIn(j, phases) == cancelLog[j].requested /\ cancelLog[j].phase \in phases

\* C1: at most one transfer job executes its phases at any time.
C1_AtMostOneRunning ==
    Cardinality({j \in DOMAIN jobs : Running(j)}) <= 1

\* C2: a startTransfer rejected because a job is Running leaves the transfer
\* state (Running flag, current transfer, progress, errors) as it was.
C2_RejectedStartKeepsState ==
    [][RejectedStartStep => transferState' = transferState]_vars

\* C3: a request with equal platforms or with no source track creates no job.
C3_InvalidRequestCreatesNoJob ==
    \A j \in DOMAIN jobs :
        Running(j) =>
            /\ jobs[j].transferData.sourcePlatform # jobs[j].transferData.targetPlatform
            /\ jobs[j].transferData.sourcePlaylist.tracks # <<>>

\* C4: an accepted startTransfer leaves the job Running with an empty error
\* list, answers 'Transfer started' and starts no adapter call in that step;
\* every job that is past its first await has had its response sent.
C4_ResponseBeforePhases ==
    /\ [](\A j \in DOMAIN jobs : jobs[j].pc # "fetchAuth" => jobs[j].responseSent)
    /\ [][AcceptedStartStep =>
            /\ transferState'.isTransferring
            /\ transferState'.errors = <<>>
            /\ transferState'.progress = Percent(10)
            /\ lastResponse' = StartedResponse
            /\ jobs'[Len(jobs')].responseSent
            /\ jobs'[Len(jobs')].pc = "fetchAuth"]_vars

C4_Witness ==
    \E j \in DOMAIN jobs :
        /\ jobs[j].pc = "fetching"
        /\ jobs[j].responseSent
        /\ lastResponse = StartedResponse

\* C5: cancelTransfer while no job is Running changes nothing of the state
\* getTransferStatus returns.
C5_IdleCancelIsNoOp ==
    [][(~transferState.isTransferring /\ CancelStep)
         => transferState' = transferState]_vars

\* C6: once cancellation was requested for a running job, that job starts no
\* further searchTrack, createPlaylist or addTracks call.
C6_NoCallAfterCancel ==
    [][\A j \in DOMAIN jobs : cancelLog[j].requested => ~CallStarted(j)]_vars

\* C7: a job cancelled during Matching or InsertingTracks never ends
\* completed or failed.
C7_CancelledNeverCompletesOrFails ==
    \A j \in DOMAIN jobs :
        CancelledIn(j, {"Matching", "InsertingTracks"}) => ~Returned(j)

\* C8: after a cancellation during Matching or InsertingTracks the progress
\* value never exceeds the value it had when the cancellation was requested.
C8_ProgressBoundedAfterCancel ==
    \A j \in DOMAIN jobs :
        CancelledIn(j, {"Matching", "InsertingTracks"})
            => transferState.progress <= cancelLog[j].progress

ValidRequest(data) ==
    /\ data.sourcePlatform # data.targetPlatform
    /\ data.sourcePlaylist.tracks # <<>>

BoundedCount(r) ==
    0 <= r.transferredTracks /\ r.transferredTracks <= r.totalTracks

\* C9 as stated: every record written for a valid request has totalTracks equal
\* to the number of tracks of the submitted playlist, 0 <= transferred <= total.
C9_TotalIsSubmittedCount ==
    \A k \in DOMAIN transferHistory :
        LET r == transferHistory[k]
        IN ValidRequest(r) =>
              /\ r.totalTracks = Len(r.sourcePlaylist.tracks)
              /\ BoundedCount(r)

\* C9 amended: the record a job writes has totalTracks equal to the number of
\* tracks the source adapter returned to that job, 0 <= transferred <= total.
C9_TotalIsFetchedCount ==
    /\ \A j \in DOMAIN jobs :
          jobs[j].pc = "histSet" =>
              LET r == Head(jobs[j].history)
              IN /\ r.sourcePlaylist = jobs[j].transferData.sourcePlaylist
                 /\ r.totalTracks = Len(jobs[j].sourceTracks)
                 /\ BoundedCount(r)
    /\ \A k \in DOMAIN transferHistory : BoundedCount(transferHistory[k])

C9_Witness ==
    /\ transferHistory # <<>>
    /\ ValidRequest(transferHistory[1])
    /\ transferHistory[1].totalTracks = MaxTracks
    /\ transferHistory[1].transferredTracks = MaxTracks - 1
    /\ \E j \in DOMAIN jobs : jobs[j].pc = "done"

Resolved(job) == {k \in DOMAIN job.results : job.results[k].found}

\* C10: a track that does not resolve does not abort the job: matching never
\* fails the job, it yields one result per fetched track, addTracks gets
\* exactly the resolved tracks in source order, and the record counts them.
C10_UnresolvedTrackDoesNotAbort ==
    /\ [](\A j \in DOMAIN jobs :
            LET job == jobs[j]
                valid == job.validTracks
            IN /\ job.pc \in {"createAuth", "creating", "addAuth", "adding",
                              "histGet", "histSet"}
                    => /\ Len(job.results) = Len(job.sourceTracks)
                       /\ \A k \in DOMAIN job.results :
                             job.results[k].original = job.sourceTracks[k]
               /\ job.pc \in {"adding", "histGet", "histSet"}
                    => /\ Len(valid) = Cardinality(Resolved(job))
                       /\ \A m \in DOMAIN valid :
                             /\ valid[m].found
                             /\ valid[m].match = valid[m].original
                       /\ \A k \in DOMAIN job.results :
                             k \in Resolved(job) <=>
                                \E m \in DOMAIN valid : valid[m] = job.results[k]
                       /\ \A m, n \in DOMAIN valid :
                             m < n => valid[m].original < valid[n].original
               /\ job.pc = "histSet"
                    => /\ Head(job.history).transferredTracks = Len(valid)
                       /\ Head(job.history).totalTracks = Len(job.results))
    /\ [][\A j \in DOMAIN jobs :
            jobs[j].pc \in {"searchAuth", "searching"} => jobs'[j].pc # "failed"]_vars

C10_Witness ==
    \E j \in DOMAIN jobs :
        LET job == jobs[j]
        IN /\ job.pc = "histSet"
           /\ Len(job.results) = 3
           /\ job.results[1].found /\ ~job.results[2].found /\ job.results[3].found
           /\ [m \in DOMAIN job.validTracks |-> job.validTracks[m].original] = <<1, 3>>
           /\ Head(job.history).totalTracks = 3
           /\ Head(job.history).transferredTracks = 2

\* the place of a track in the list the source adapter returned
SourceIndex(job, track) == CHOOSE k \in DOMAIN job.sourceTracks : job.sourceTracks[k] = track

\* C11: the tracks handed to addTracks are a subsequence of the source
\* tracks: each is a source track, and they come in source order, once each.
C11_SubmittedTracksInSourceOrder ==
    \A j \in DOMAIN jobs :
        LET job == jobs[j]
            valid == job.validTracks
        IN job.pc = "adding" =>
              /\ \A m \in DOMAIN valid :
                    \E k \in DOMAIN job.sourceTracks :
                        job.sourceTracks[k] = valid[m].original
              /\ \A m, n \in DOMAIN valid :
                    m < n => SourceIndex(job, valid[m].original)
                                < SourceIndex(job, valid[n].original)

C11_Witness ==
    \E j \in DOMAIN jobs :
        /\ jobs[j].pc = "adding"
        /\ Len(jobs[j].sourceTracks) = 3
        /\ Len(jobs[j].validTracks) = 2
        /\ jobs[j].validTracks[1].original = 2
        /\ jobs[j].validTracks[2].original = 3

\* C12: no addTracks call carries more than options.batchSize tracks.
C12_CallsCarryAtMostBatchSize ==
    \A j \in DOMAIN jobs :
        jobs[j].pc = "adding" =>
            Len(jobs[j].validTracks) <= jobs[j].transferData.options.batchSize

\* C20: a job whose target playlist was created does not end failed, and a
\* job that completes with some but not all tracks found leaves a populated
\* error list.
C20_PartialSuccessIsCompleted ==
    [][\A j \in DOMAIN jobs :
          /\ jobs[j].targetPlaylist # NoPlaylist => jobs'[j].pc # "failed"
          /\ ( /\ jobs[j].pc = "histSet"
               /\ jobs'[j].pc = "done"
               /\ Cardinality(Resolved(jobs[j])) \in 1..(Len(jobs[j].results) - 1) )
             => transferState'.errors # <<>>]_vars

\* C13: the stored history never holds more than 50 records, however many
\* records were saved.
C13_HistoryAtMostFifty ==
    /\ Len(transferHistory) <= HistoryLimit
    /\ Len(saver.history) <= HistoryLimit

C13_Witness ==
    /\ saver.pc = "idle"
    /\ saver.appended > HistoryLimit + 1
    /\ Len(transferHistory) = HistoryLimit

\* C14: after sequential saves the stored list is the saved records, newest
\* first, cut to the 50 most recent: record k of the list is the k-th newest.
C14_NewestFirstOldestEvicted ==
    saver.pc = "idle" =>
        /\ Len(transferHistory) =
              IF saver.appended > HistoryLimit THEN HistoryLimit ELSE saver.appended
        /\ \A k \in DOMAIN transferHistory :
              transferHistory[k] = saver.appended + 1 - k

C14_Witness ==
    /\ saver.pc = "idle"
    /\ saver.appended = HistoryLimit + 1
    /\ transferHistory[1] = HistoryLimit + 1
    /\ \A k \in DOMAIN transferHistory : transferHistory[k] # 1

\* C15: with maxRetries = N >= 1 the operation is invoked at most N times; a
\* return hands back the result of the last invocation, all invocations
\* before it having failed; a throw comes after N failures and carries the
\* error of the N-th.
C15_AtMostNAttemptsLastErrorSurfaced ==
    retry.maxRetries >= 1 =>
        /\ retry.calls <= retry.maxRetries
        /\ retry.pc = "returned" =>
              /\ retry.result = [attempt |-> retry.calls]
              /\ Len(retry.errors) = retry.calls - 1
        /\ retry.pc = "thrown" =>
              /\ retry.calls = retry.maxRetries
              /\ Len(retry.errors) = retry.maxRetries
              /\ retry.error = retry.errors[retry.maxRetries]

C15_Witness ==
    /\ retry.pc = "thrown"
    /\ retry.maxRetries = 3
    /\ retry.calls = 3
    /\ retry.error = [kind |-> "transient", attempt |-> 3]

\* C16: when the first attempt fails with a non-transient error the
\* operation is invoked once and the call fails at once.
C16_NonTransientFailsImmediately ==
    (retry.errors # <<>> /\ retry.errors[1].kind = "auth") =>
        /\ retry.calls = 1
        /\ retry.pc = "thrown"

\* C17: with maxRetries = 0 the operation is invoked once: the call returns
\* its result or throws its error.
C17_ZeroMeansOneAttempt ==
    (retry.maxRetries = 0 /\ retry.pc \in {"returned", "thrown"}) =>
        /\ retry.calls = 1
        /\ retry.pc = "returned" => retry.result = [attempt |-> 1]
        /\ retry.pc = "thrown" => retry.error.attempt = 1

\* the slots granted in the second that begins at time t
GrantsWithin(t) ==
    {k \in DOMAIN limiter.grants :
        t <= limiter.grants[k].at /\ limiter.grants[k].at < t + Window}

\* C18: in no interval of one second are more than requestsPerSecond
\* waitForSlot calls granted.
C18_AtMostNGrantsPerSecond ==
    \A k \in DOMAIN limiter.grants :
        Cardinality(GrantsWithin(limiter.grants[k].at)) <= limiter.requestsPerSecond

\* the step is a waitForSlot call of caller c
SlotAsked(c) == limiter'.callers[c].calls # limiter.callers[c].calls

\* C19: every waitForSlot call returns: with room in the window in the step
\* of the call, else after a wait of more than 0 and at most 1000 ms; no
\* call is lost on the way.
C19_EveryCallReturns ==
    /\ [](/\ Len(limiter.grants) + Cardinality(Waiting) = CallsUpTo(MaxCallers)
          /\ \A c \in Waiting :
                limiter.callers[c].wakeAt - limiter.callers[c].now \in 1..Window)
    /\ [][\A c \in Callers :
            SlotAsked(c) =>
                IF Len(Recent(limiter.requests, limiter.clock)) < limiter.requestsPerSecond
                THEN /\ limiter'.callers[c].pc = "idle"
                     /\ limiter'.clock = limiter.clock
                     /\ Len(limiter'.grants) = Len(limiter.grants) + 1
                ELSE limiter'.callers[c].pc = "waiting"]_vars
    /\ \A c \in Callers : (c \in Waiting) ~> (c \notin Waiting)

C19_Witness ==
    \E k \in DOMAIN limiter.grants :
        limiter.grants[k].at - limiter.grants[k].asked = Window

\* the messages of the errors thrown while fetching (460, 526) and while
\* creating the playlist (468, 572)
FetchReasons == {"fetch error", "not supported for track fetching"}

CreateReasons == {"create error", "not supported for playlist creation"}

\* the step ends job j as failed: one reason of the set is appended to the
\* error list and the Running flag is cleared
FailsWith(j, reasons) ==
    /\ jobs'[j].pc = "failed"
    /\ \E reason \in reasons :
          transferState'.errors = Append(transferState.errors, reason)
    /\ ~transferState'.isTransferring

\* C21: a job leaves the fetch phase with the fetched tracks or failed, and
\* the creation phase with the created playlist or failed; failing appends
\* the reason of the error and clears the Running flag, and a failed job
\* takes no further step.
C21_FetchAndCreateErrorsAreFatal ==
    [][\A j \in DOMAIN jobs :
          /\ (jobs[j].pc \in {"fetchAuth", "fetching"} /\ jobs'[j].pc # jobs[j].pc)
                => \/ jobs'[j].pc \in {"fetching", "searchAuth"}
                   \/ FailsWith(j, FetchReasons)
          /\ (jobs[j].pc \in {"createAuth", "creating"} /\ jobs'[j].pc # jobs[j].pc)
                => \/ jobs'[j].pc \in {"creating", "addAuth"}
                   \/ FailsWith(j, CreateReasons)
          /\ jobs[j].pc = "failed" => jobs'[j] = jobs[j]]_vars

C21_Witness ==
    \E j \in DOMAIN jobs :
        /\ jobs[j].pc = "failed"
        /\ transferState.errors = <<"create error">>
        /\ transferState.progress = Percent(60)
        /\ ~transferState.isTransferring

\* C22: a job goes on after a search only when the search did not fail for
\* an invalid credential: such a failure ends the job as failed.
C22_InvalidCredentialFailsJob ==
    [][\A j \in DOMAIN jobs :
          (JobAt(j, "searching") /\ jobs'[j].pc # "failed")
             => \A k \in DOMAIN jobs'[j].results :
                   jobs'[j].results[k].error # "invalid credential"]_vars

\* C29: the progress held in the transfer state is a whole number between
\* 0 and 100.
C29_ProgressIsWholePercent ==
    /\ transferState.progress \in 0..Percent(100)
    /\ transferState.progress % ProgressUnit = 0

\* C23: a job leaves the insertion only towards its history record: an
\* addTracks call that failed does not end the job as failed.
C23_FailedInsertionDoesNotFailJob ==
    [][\A j \in DOMAIN jobs :
          (JobAt(j, "adding") /\ jobs'[j].pc # "adding") => jobs'[j].pc = "histGet"]_vars

\* C25: the history holds one record for every job that has ended, completed
\* or failed.
C25_OneRecordPerEndedJob ==
    Len(transferHistory) = Cardinality({j \in DOMAIN jobs : Returned(j)})

\* C28: while a job runs, the progress in the transfer state never goes down.
C28_ProgressNeverDecreases ==
    [][\A j \in DOMAIN jobs :
          Running(j) => transferState'.progress >= transferState.progress]_vars

\* C24: the record a job writes counts as transferred the tracks that the
\* addTracks call reported as inserted.
C24_TransferredIsInsertedCount ==
    \A j \in DOMAIN jobs :
        jobs[j].pc = "histSet" =>
            jobs[j].history[1].transferredTracks = jobs[j].inserted

\* the number of batches of size b that m tracks make
Batches(m, b) == (m + b - 1) \div b

\* C30: a job that completes has emitted one progress event for each of the
\* five phases, one for each source track and one for each insertion batch.
C30_OneEventPerPhaseItemAndBatch ==
    [][\A j \in DOMAIN jobs :
          (JobAt(j, "histSet") /\ jobs'[j].pc = "done")
             => jobs'[j].events =
                   5 + Len(jobs[j].sourceTracks)
                     + Batches(Len(jobs[j].validTracks),
                               jobs[j].transferData.options.batchSize)]_vars

\* C26: a stored record stays in the history from one state to the next,
\* unless it is the last of 50 and a new record is put in front.
C26_RecordsLeaveOnlyByEviction ==
    [][\A k \in DOMAIN transferHistory :
          \/ \E m \in DOMAIN transferHistory' :
                transferHistory'[m] = transferHistory[k]
          \/ /\ k = HistoryLimit
             /\ Len(transferHistory') = HistoryLimit
             /\ \A m \in 1..(HistoryLimit - 1) :
                   transferHistory'[m + 1] = transferHistory[m]]_vars

\* C27: before each searchTrack call the rate limiter has granted a slot,
\* and a search recorded with an error was made through retryOperation.
C27_SearchThroughLimiterAndRetry ==
    \A j \in DOMAIN jobs :
        /\ jobs[j].pc = "searching" => Len(limiter.grants) >= jobs[j].i + 1
        /\ \A k \in DOMAIN jobs[j].results :
              jobs[j].results[k].error # Undefined => retry.calls >= 1

\* a result of one of the three shapes: found with its match, not found
\* with a null match and no error, not found with an error and no match
WellFormed(result, thrown) ==
    \/ result.found /\ result.match = result.original /\ result.error = Undefined
    \/ ~result.found /\ result.match = NullTrack /\ result.error = Undefined
    \/ ~result.found /\ result.match = UndefinedTrack /\ result.error \in thrown

\* C31: while a job matches there is one result for each track searched so
\* far, in source order, and once matching is over one for every source
\* track; every result is well formed.
C31_OneWellFormedResultPerTrack ==
    \A j \in DOMAIN jobs :
        LET job == jobs[j]
        IN /\ job.pc \in {"searchAuth", "searching"} => Len(job.results) = job.i
           /\ job.pc \in {"createAuth", "creating", "addAuth", "adding", "histGet", "histSet"}
                 => Len(job.results) = Len(job.sourceTracks)
           /\ \A k \in DOMAIN job.results :
                 /\ job.results[k].original = job.sourceTracks[k]
                 /\ WellFormed(job.results[k], limits.thrown)

C31_Witness ==
    \E j \in DOMAIN jobs :
        /\ jobs[j].pc = "createAuth"
        /\ Len(jobs[j].results) = 3
        /\ jobs[j].results[1].found
        /\ jobs[j].results[2].match = NullTrack
        /\ jobs[j].results[3].error = "network error"

InvolvesAmazon(job) ==
    "amazon" \in {job.transferData.sourcePlatform, job.transferData.targetPlatform}

NotSupportedReasons ==
    {"not supported for track fetching", "not supported for playlist creation",
     "not supported for adding tracks"}

\* the step leaves no target playlist and no insertion behind for job j
NothingCreated(j) ==
    /\ jobs'[j].pc \notin {"creating", "addAuth", "adding", "histGet", "histSet", "done"}
    /\ jobs'[j].targetPlaylist = NoPlaylist

C34_EarlierJobLeavesStateAlone ==
    [][\A j \in DOMAIN jobs :
          (j < Len(jobs) /\ jobs'[j] # jobs[j]) => transferState' = transferState]_vars

\* C36: the stored history holds a record for every job that has completed.
C36_NoRecordLostToOverlap ==
    Len(transferHistory) >= Cardinality({j \in DOMAIN jobs : jobs[j].pc = "done"})

\* C39: the k-th wait of a retryOperation call is k times 1000 ms; there is
\* one wait after each failed attempt but the last one allowed.
C39_LinearBackoff ==
    /\ \A k \in DOMAIN retry.waits : retry.waits[k] = k * RetryDelay
    /\ Len(retry.waits) =
          IF retry.pc = "thrown" THEN Len(retry.errors) - 1 ELSE Len(retry.errors)
    /\ retry.pc = "thrown" => Len(retry.waits) = retry.maxRetries - 1

C39_Witness ==
    /\ retry.pc = "thrown"
    /\ retry.maxRetries = 3
    /\ retry.waits = <<RetryDelay, 2 * RetryDelay>>

\* C35: every accepted job returns; the step in which it returns clears the
\* Running flag, on the success path and on every failure path; and a
\* startTransfer that arrives while the flag is clear is not refused: it is
\* accepted with the error list emptied and the progress restarted (0, then
\* the first update).
C35_EveryJobTerminates ==
    /\ \A j \in JobIds : (j \in DOMAIN jobs) ~> (j \in DOMAIN jobs /\ Returned(j))
    /\ [][\A j \in DOMAIN jobs :
            (Running(j) /\ Returned(j)') => ~transferState'.isTransferring]_vars
    /\ [][(~transferState.isTransferring /\ lastResponse # ConflictResponse)
            => lastResponse' # ConflictResponse]_vars
    /\ [][AcceptedStartStep
            => /\ ~transferState.isTransferring
               /\ transferState'.errors = <<>>
               /\ transferState'.progress = Percent(10)
               /\ jobs'[Len(jobs')].pc \in ActivePcs]_vars

C35_Witness ==
    /\ Len(jobs) = 2
    /\ jobs[1].pc = "failed"
    /\ jobs[2].pc = "fetchAuth"
    /\ ~cancelLog[1].requested
    /\ transferState.isTransferring
    /\ transferState.errors = <<>>

\* C37: getAuthStatus reports a platform authenticated exactly when
\* getAuthToken returns a token for it at that moment, and every stored
\* token has a defined expiry time.
C37_StatusAgreesWithToken ==
    /\ \A p \in Platforms :
          AuthStatus(auth.authTokens)[p].authenticated
             <=> GetAuthToken(auth.authTokens, p, auth.now).stored
    /\ \A p \in Platforms :
          auth.authTokens[p].stored => Truthy(auth.authTokens[p].expires)

\* C33: a playlist handed over by getPlaylistData has trackCount equal to the
\* number of its tracks, and positions that start at 1 or above and increase
\* strictly in list order.
C33_CountAndPositions ==
    LET playlist == content.reply.playlist
    IN playlist.extracted =>
          /\ playlist.trackCount = Len(playlist.tracks)
          /\ \A k \in DOMAIN playlist.tracks : playlist.tracks[k].position >= 1
          /\ \A k, l \in DOMAIN playlist.tracks :
                k < l => playlist.tracks[k].position < playlist.tracks[l].position

\* C38: once checkForPlaylist has run on the page shown (it found no
\* playlist page, or its extraction ran), the playlist that getPlaylistData
\* returns was extracted from the URL shown, never from an earlier one.
C38_ReplyIsOfPageShown ==
    LET reply == content.reply
    IN (reply.asked /\ reply.checked /\ reply.playlist.extracted) =>
          reply.playlist.url = reply.page.list

====
